---- MODULE Spec2Model ----
(***************************************************************************)
(* A model of the AI gateway server: the Express middleware pipeline       *)
(* (rate limiter -> request validator -> route handler), the /chain        *)
(* handler with its two provider calls, the single-provider handlers of    *)
(* the three versions of routes/api.js, and the rate-limit stores.         *)
(*                                                                         *)
(* JavaScript values are records tagged by "t": undefined, a number, or a  *)
(* string.  A string is ch repeated len times, which keeps a string of     *)
(* 10000 characters a small value.  The strings of the user endpoints      *)
(* (username, email, password) are sequences of characters.                *)
(***************************************************************************)
EXTENDS Integers, Sequences, FiniteSets, TLC

VARIABLES env, mounted, geminiService, users, chats, alive, providerFailed,
          now, store, req, arrivals, tier

vars == <<env, mounted, geminiService, users, chats, alive, providerFailed,
          now, store, req, arrivals, tier>>

(***************************************************************************)
(* Bounds of the model.                                                    *)
(***************************************************************************)
ChainArrivals == 3
AiArrivals == 2
AuthArrivals == 7
TierArrivals == 32
LimitArrivals == 12
MaxWindows == 1

\* request slots (requests in flight at once) and client keys (req.ip)
Slots == {"r1", "r2"}
Keys == {"ip1", "ip2"}

(***************************************************************************)
(* JavaScript values.                                                      *)
(***************************************************************************)
Undef == [t |-> "undef", ch |-> "", len |-> 0]
Num7 == [t |-> "num", ch |-> "7", len |-> 0]
Str(c, n) == [t |-> "str", ch |-> IF n = 0 THEN "" ELSE c, len |-> n]
EmptyStr == Str("", 0)

\* a message text (error.message and the like), kept whole in ch
Lit(s) == [t |-> "lit", ch |-> s, len |-> 1]

\* JS truthiness of a value: undefined, "" are falsy
Truthy(v) == \/ v.t = "num"
             \/ v.t = "lit"
             \/ v.t = "str" /\ v.len > 0

\* a || b
JsOr(a, b) == IF Truthy(a) THEN a ELSE b

\* a request body: the keys a client may post; a key that is absent reads as
\* undefined; extra is a key no schema knows
NoBody ==
  [input |-> Undef, username |-> Undef, email |-> Undef, password |-> Undef,
   userId |-> Undef, messages |-> Undef, model |-> Undef, extra |-> Undef]

\* the body {input: v}
Posted(v) == [NoBody EXCEPT !.input = v]

\* v.length throws a TypeError when v is undefined
LengthThrows(v) == v.t = "undef"


(***************************************************************************)
(* Request validation (middleware/validation.js).                          *)
(***************************************************************************)
InputMin == 1
InputMax == 10000

\* the schemas the module declares
schemas == {"deepseek", "gemini", "userRegister", "userLogin"}

\* validateChain and validateScira are imported by the router and are not
\* among the module's schemas: the same {input} schema, from the data model
InferenceRequestSchemas == {"chain", "scira"}

SchemaOf(route) ==
  CASE route = "/chain" -> "chain"
    [] route = "/scira" -> "scira"
    [] route = "/deepseek" -> "deepseek"
    [] route = "/gemini" -> "gemini"
    [] route = "/users/register" -> "userRegister"
    [] route = "/users/login" -> "userLogin"

FieldError(f, m) == [field |-> f, message |-> m]

\* JoiInput with the upper bound off by one: a 10000-character input is refused
JoiInput_MaxOffByOne(v) ==
  IF v.t = "undef" THEN <<FieldError("input", "Input is required")>>
  ELSE IF v.t # "str" THEN <<FieldError("input", "\"input\" must be a string")>>
  ELSE IF v.len = 0 THEN <<FieldError("input", "Input cannot be empty")>>
  ELSE IF v.len >= InputMax
    THEN <<FieldError("input", "Input cannot exceed 10,000 characters")>>
    ELSE <<>>

\* Joi.string().min(1).max(10000).required() on the key input, with the
\* schema's messages; abortEarly: false collects every error of the value
JoiInput(v) ==
  IF v.t = "undef" THEN <<FieldError("input", "Input is required")>>
  ELSE IF v.t # "str" THEN <<FieldError("input", "\"input\" must be a string")>>
  ELSE IF v.len = 0 THEN <<FieldError("input", "Input cannot be empty")>>
  ELSE (IF v.len < InputMin
          THEN <<FieldError("input", "Input must be at least 1 character long")>>
          ELSE <<>>)
       \o
       (IF v.len > InputMax
          THEN <<FieldError("input", "Input cannot exceed 10,000 characters")>>
          ELSE <<>>)

\* a string of the user endpoints: its characters
Txt(chars) == [t |-> "str", chars |-> chars]

LowerCase ==
  {"a", "b", "c", "d", "e", "f", "g", "h", "i", "j", "k", "l", "m", "n", "o",
   "p", "q", "r", "s", "t", "u", "v", "w", "x", "y", "z"}
UpperCase ==
  {"A", "B", "C", "D", "E", "F", "G", "H", "I", "J", "K", "L", "M", "N", "O",
   "P", "Q", "R", "S", "T", "U", "V", "W", "X", "Y", "Z"}
Digits == {"0", "1", "2", "3", "4", "5", "6", "7", "8", "9"}
\* the class [!@#$%^&*(),.?":{}|<>]
Special ==
  {"!", "@", "#", "$", "%", "^", "&", "*", "(", ")", ",", ".", "?", "\"", ":",
   "{", "}", "|", "<", ">"}

\* /[class]/.test(chars)
Has(chars, class) == \E i \in 1..Len(chars) : chars[i] \in class
\* /^[class]+$/.test(chars)
Only(chars, class) ==
  Len(chars) >= 1 /\ \A i \in 1..Len(chars) : chars[i] \in class

UsernameMin == 3
UsernameMax == 30
PasswordMin == 6
PasswordMax == 128

\* the top-level domains Joi's email() knows, those the model's emails use
Tlds == {<<"i", "o">>, <<"c", "o", "m">>}

\* Joi.string().email(): one "@", a local part, and a domain of two or more
\* segments that ends in a known top-level domain
IsEmail(chars) ==
  \E i \in 2..Len(chars) :
    /\ chars[i] = "@"
    /\ \A j \in 1..Len(chars) : chars[j] = "@" => j = i
    /\ \E d \in (i + 2)..Len(chars) :
         /\ chars[d] = "."
         /\ \A j \in (i + 1)..(d - 1) : chars[j] # "."
         /\ SubSeq(chars, d + 1, Len(chars)) \in Tlds

\* the error of a value Joi does not run the rules on: missing (any.required),
\* not a string (string.base), or the empty string (string.empty)
JoiBase(f, name, v) ==
  IF v.t = "undef" THEN <<FieldError(f, name \o " is required")>>
  ELSE IF v.t # "str" THEN <<FieldError(f, "\"" \o f \o "\" must be a string")>>
  ELSE IF Len(v.chars) = 0 THEN <<FieldError(f, name \o " cannot be empty")>>
  ELSE <<>>

\* one rule of a string schema: its error when the rule is violated
JoiRule(holds, f, message) == IF holds THEN <<>> ELSE <<FieldError(f, message)>>

\* a string schema under abortEarly: false: the base error alone, or else the
\* errors of every violated rule, in the order the rules are declared
JoiString(base, rules) == IF base # <<>> THEN base ELSE rules

\* schemas.userRegister.username
JoiUsername(v) ==
  JoiString(JoiBase("username", "Username", v),
    IF v.t # "str" THEN <<>> ELSE
    JoiRule(Len(v.chars) >= UsernameMin, "username",
            "Username must be at least 3 characters long")
    \o JoiRule(Len(v.chars) <= UsernameMax, "username",
               "Username cannot exceed 30 characters")
    \o JoiRule(Only(v.chars, LowerCase \cup UpperCase \cup Digits \cup {"_"}),
               "username",
               "Username can only contain letters, numbers, and underscores"))

\* schemas.userRegister.email and schemas.userLogin.email
JoiEmail(v) ==
  JoiString(JoiBase("email", "Email", v),
    IF v.t # "str" THEN <<>> ELSE
    JoiRule(IsEmail(v.chars), "email", "Please enter a valid email address"))

\* schemas.userRegister.password
JoiPassword(v) ==
  JoiString(JoiBase("password", "Password", v),
    IF v.t # "str" THEN <<>> ELSE
    JoiRule(Len(v.chars) >= PasswordMin, "password",
            "Password must be at least 6 characters long")
    \o JoiRule(Len(v.chars) <= PasswordMax, "password",
               "Password cannot exceed 128 characters")
    \o JoiRule(/\ Has(v.chars, LowerCase)
               /\ Has(v.chars, UpperCase)
               /\ Has(v.chars, Digits),
               "password",
               "Password must contain at least one lowercase letter, one uppercase letter, and one number"))

\* schemas.userLogin.password
JoiLoginPassword(v) == JoiString(JoiBase("password", "Password", v), <<>>)

\* the keys of a schema
SchemaKeys(name) ==
  CASE name = "userRegister" -> {"username", "email", "password"}
    [] name = "userLogin" -> {"email", "password"}
    [] OTHER -> {"input"}

\* schema.validate(req.body, {abortEarly: false, stripUnknown: true}).error:
\* the errors of the keys in the order the schema declares them
SchemaErrors(name, body) ==
  CASE name = "userRegister" ->
         JoiUsername(body.username) \o JoiEmail(body.email)
         \o JoiPassword(body.password)
    [] name = "userLogin" -> JoiEmail(body.email) \o JoiLoginPassword(body.password)
    [] OTHER -> JoiInput(body.input)

\* SchemaValue keeping the keys the schema does not know
SchemaValue_KeepUnknown(name, body) == body

\* ... .value: the known keys of the body, unknown keys stripped
SchemaValue(name, body) ==
  [f \in DOMAIN body |-> IF f \in SchemaKeys(name) THEN body[f] ELSE Undef]


(***************************************************************************)
(* Rate limiting (middleware/rateLimit.js, and authLimiter of index.js).   *)
(* A limiter instance keeps, per client key, the hits of the running       *)
(* window and the time the window ends.                                    *)
(***************************************************************************)
windowMs == 15 * 60 * 1000

authMax == 5
generalMax == 100
aiMax == 30
chainMax == 10
devMax == 1000

Limiters == {"auth", "general", "ai", "chain", "dev"}

Max(l) ==
  CASE l = "auth" -> authMax
    [] l = "general" -> generalMax
    [] l = "ai" -> aiMax
    [] l = "chain" -> chainMax
    [] l = "dev" -> devMax

\* the 429 body of each limiter
LimitMessage(l) ==
  CASE l = "auth" -> "Too many authentication attempts, please try again later."
    [] l = "general" -> "Too many requests from this IP, please try again later."
    [] l = "ai" -> "Too many AI requests from this IP, please try again later."
    [] l = "chain" -> "Too many chain requests from this IP, please try again later."
    [] l = "dev" -> "Development rate limit exceeded."

\* getRateLimiters handing out the ai limiter for the chain tier as well
getRateLimiters_AiForChain(nodeEnv, t) ==
  IF nodeEnv = "development" THEN "dev"
  ELSE IF t = "chain" THEN "ai" ELSE t

\* getRateLimiters(): which instance serves the general, ai and chain tiers
getRateLimiters(nodeEnv, t) ==
  IF nodeEnv = "development" THEN "dev" ELSE t

AuthRoutes == {"/users/login", "/users/register"}
AiRoutes == {"/scira", "/deepseek", "/gemini"}
Routes == {"/chain"} \cup AiRoutes \cup AuthRoutes
\* the chat-history route; no limiter and no validator is registered on it
ChatRoutes == {"/chat/save"}

\* the tier a route is registered under
TierOf(route) ==
  IF route \in AuthRoutes THEN "auth"
  ELSE IF route = "/chain" THEN "chain" ELSE "ai"

Tiers == {"auth", "chain", "ai"}

\* the limiter instance in front of a route
LimiterOf(nodeEnv, route) ==
  IF route \in AuthRoutes THEN "auth"
  ELSE getRateLimiters(nodeEnv, TierOf(route))

NoEntry == [hits |-> 0, resetTime |-> 0]

\* the window of an entry is over
Expired(e, t) == e.resetTime <= t

\* Increment never starting a new window
Increment_NoReset(e, t) == [e EXCEPT !.hits = @ + 1]

\* store.increment(key): a new window on the first hit after the old one ended
Increment(e, t) ==
  IF Expired(e, t) THEN [hits |-> 1, resetTime |-> t + windowMs]
  ELSE [e EXCEPT !.hits = @ + 1]

\* the request is over the limit
OverLimit(l, e) == e.hits > Max(l)

\* per (tier, key), the window as the client sees it: when it opened, the
\* requests seen in it and those let through
NoWindow == [open |-> FALSE, start |-> 0, seen |-> 0, admitted |-> 0]

Observe(w, t, pass) ==
  LET fresh == ~w.open \/ t >= w.start + windowMs
      base == IF fresh THEN [open |-> TRUE, start |-> t, seen |-> 0, admitted |-> 0]
              ELSE w
  IN [base EXCEPT !.seen = @ + 1, !.admitted = @ + (IF pass THEN 1 ELSE 0)]


(***************************************************************************)
(* Requests and responses.                                                 *)
(***************************************************************************)
NoChain == [scira |-> Undef, deepseek |-> Undef]
Metadata == {"processingTime", "timestamp"}

\* passwordStrength before validatePasswordStrength has run
NoStrength == [isValid |-> FALSE, errors |-> <<>>, strength |-> 0]

\* a lastLogin that was never set
Never == -1
NoUser == [id |-> 0, username |-> Undef, email |-> Undef, lastLogin |-> Never]

\* the chatHistory of a response that has none
NoHistory == [id |-> 0, messageCount |-> 0, model |-> Undef]

\* res.status(status).json({error, details, output, chain, metadata});
\* fieldErrors is details when it is an array
Response(status, error, details, fieldErrors, output, chain, metadata) ==
  [status |-> status, error |-> error, details |-> details,
   fieldErrors |-> fieldErrors, output |-> output, chain |-> chain,
   metadata |-> metadata, message |-> "", user |-> NoUser,
   chatHistory |-> NoHistory]

\* res.status(status).json({message, user, metadata}) of login and register
UserResponse(status, message, user) ==
  [Response(status, "", Undef, <<>>, Undef, NoChain, Metadata)
     EXCEPT !.message = message, !.user = user]

Idle ==
  [pc |-> "idle", route |-> "", path |-> "", ip |-> "", user |-> 0,
   history |-> 0,
   lastLogin |-> Never, passwordStrength |-> NoStrength, posted |-> NoBody,
   body |-> NoBody, passed |-> {}, calls |-> <<>>, vendor |-> <<>>, sciraOutput |-> Undef,
   resps |-> <<>>]

\* the three versions of routes/api.js; index.js mounts one of them on /api
Routers == {"part_006", "part_005", "api_js"}

\* the routes a version of the router declares
RoutesOf(m) ==
  IF m = "part_006" THEN {"/chain"} \cup AiRoutes \cup AuthRoutes \cup ChatRoutes
  ELSE {"/deepseek", "/gemini"}

\* the route a request path matches: routing is not strict, a trailing
\* slash matches as well
Match(path) == IF path = "/users/register/" THEN "/users/register" ELSE path

\* the first middleware a request meets
FirstPc(m, route) ==
  IF route \in AuthRoutes THEN "limit"
  ELSE IF route \notin RoutesOf(m) THEN "notfound"
  ELSE IF route \in ChatRoutes THEN "api"
  ELSE IF m = "api_js" THEN "handler"
  ELSE "limit"

\* the middleware after the rate limiter
AfterLimit(route) == IF route \in AuthRoutes THEN "api" ELSE "validate"

Send(r, resp) == [r EXCEPT !.pc = "done", !.resps = Append(@, resp)]

Call(r, provider, prompt) ==
  [r EXCEPT !.calls = Append(@, [provider |-> provider, prompt |-> prompt])]

(***************************************************************************)
(* What a provider call comes back with.                                   *)
(***************************************************************************)
Outcome(kind, status, output, result, data, message) ==
  [kind |-> kind, status |-> status, output |-> output, result |-> result,
   data |-> data, message |-> message]

\* axios resolves: a 2xx response whose body holds output and result
AxiosOk(o, r) == Outcome("ok", 200, o, r, Undef, "")
\* axios rejects with error.response: a non-2xx response
AxiosHttp(st) ==
  Outcome("http", st, Undef, Undef, Lit("vendor error body"),
          "Request failed with status code")
\* axios rejects without error.response
AxiosNetwork == Outcome("network", 0, Undef, Undef, Undef, "connect ECONNREFUSED")
AxiosTimeout == Outcome("timeout", 0, Undef, Undef, Undef, "timeout of 30000ms exceeded")

X == Str("X", 1)
Y == Str("Y", 1)

VendorStatuses == {429, 503}

AxiosOutcomes ==
  {AxiosOk(X, Undef), AxiosOk(Undef, Y), AxiosOk(EmptyStr, EmptyStr),
   AxiosOk(EmptyStr, Undef), AxiosOk(Undef, Undef)}
  \cup {AxiosHttp(st) : st \in VendorStatuses}
  \cup {AxiosNetwork, AxiosTimeout}

\* the bodies clients post
Bodies ==
  {Posted(v) : v \in {Undef, Num7, EmptyStr, Str("a", 1),
                      Str("b", InputMax), Str("c", InputMax + 1)}}


(***************************************************************************)
(* The state after startup.                                                *)
(***************************************************************************)
InitWith(envs, routers, services) ==
  /\ env \in envs
  /\ mounted \in routers
  /\ geminiService \in services
  /\ users = <<>>
  /\ chats = <<>>
  /\ alive = TRUE
  /\ providerFailed = FALSE
  /\ now = 0
  /\ store = [l \in Limiters |-> [k \in Keys |-> NoEntry]]
  /\ req = [s \in Slots |-> Idle]
  /\ arrivals = 0
  /\ tier = [t \in Tiers |-> [k \in Keys |-> NoWindow]]

config == <<env, mounted, geminiService>>
\* the User and the ChatHistory collection
db == <<users, chats>>
\* the process: running or exited, and whether a provider call has failed
proc == <<alive, providerFailed>>

(***************************************************************************)
(* A request comes in, a finished one leaves, time passes.                 *)
(***************************************************************************)
Arrive(s, path, ip, body, cap) ==
  /\ req[s].pc = "idle"
  /\ arrivals < cap
  /\ arrivals' = arrivals + 1
  /\ req' = [req EXCEPT ![s] = [Idle EXCEPT !.pc = FirstPc(mounted, Match(path)),
                                           !.route = Match(path),
                                           !.path = path, !.ip = ip,
                                           !.posted = body, !.body = body]]
  /\ UNCHANGED <<config, db, proc, now, store, tier>>

Retire(s) ==
  /\ req[s].pc = "done"
  /\ req' = [req EXCEPT ![s] = Idle]
  /\ UNCHANGED <<config, db, proc, now, store, arrivals, tier>>

Tick(d) ==
  /\ now + d <= MaxWindows * windowMs
  /\ now' = now + d
  /\ UNCHANGED <<config, db, proc, store, req, arrivals, tier>>

\* an async handler's step ends in r: its promise rejected outside every
\* try block is an unhandledRejection, on which the process logs and exits
Settle(s, r) ==
  IF r.pc = "rejected"
  THEN /\ alive' = FALSE
       /\ req' = [t \in Slots |-> [req[t] EXCEPT !.pc = "exited"]]
  ELSE /\ alive' = alive
       /\ req' = [req EXCEPT ![s] = r]

\* a handler's log line reads input.length before the try block
Prologue(m, r, started) ==
  IF m # "api_js" /\ LengthThrows(r.body.input)
  THEN [r EXCEPT !.pc = "rejected"]
  ELSE started

(***************************************************************************)
(* The rate limiter in front of a route.                                   *)
(***************************************************************************)
\* the limiter's handler: chain, ai, general and dev answer without metadata;
\* authLimiter has no handler and answers with its message object
LimitResponse(l) ==
  Response(429, LimitMessage(l), Undef, <<>>, Undef, NoChain,
           IF l = "auth" THEN {"timestamp"} ELSE {})

\* RateLimit going on to the next middleware after it has answered 429
RateLimit_FallsThrough(s) ==
  LET r == req[s]
      l == LimiterOf(env, r.route)
      e == Increment(store[l][r.ip], now)
  IN /\ r.pc = "limit"
     /\ store' = [store EXCEPT ![l][r.ip] = e]
     /\ tier' = [tier EXCEPT ![TierOf(r.route)][r.ip] =
                                Observe(@, now, ~OverLimit(l, e))]
     /\ req' = [req EXCEPT ![s] =
                  IF OverLimit(l, e)
                  THEN [Send(r, LimitResponse(l)) EXCEPT !.pc = AfterLimit(r.route)]
                  ELSE [r EXCEPT !.pc = AfterLimit(r.route)]]
     /\ UNCHANGED <<config, db, proc, now, arrivals>>

RateLimit(s) ==
  LET r == req[s]
      l == LimiterOf(env, r.route)
      e == Increment(store[l][r.ip], now)
  IN /\ r.pc = "limit"
     /\ store' = [store EXCEPT ![l][r.ip] = e]
     /\ tier' = [tier EXCEPT ![TierOf(r.route)][r.ip] =
                                Observe(@, now, ~OverLimit(l, e))]
     /\ req' = [req EXCEPT ![s] =
                  IF OverLimit(l, e) THEN Send(r, LimitResponse(l))
                  ELSE [r EXCEPT !.pc = AfterLimit(r.route)]]
     /\ UNCHANGED <<config, db, proc, now, arrivals>>

(***************************************************************************)
(* validate(schemaName): the validation middleware.                        *)
(***************************************************************************)
validate(name, r) ==
  IF name \notin schemas \cup InferenceRequestSchemas
  THEN Send(r, Response(500, "Validation configuration error", Undef, <<>>,
                        Undef, NoChain, {}))
  ELSE IF SchemaErrors(name, r.body) # <<>>
  THEN Send(r, Response(400, "Validation failed", Undef,
                        SchemaErrors(name, r.body), Undef, NoChain, {}))
  ELSE [r EXCEPT !.body = SchemaValue(name, r.body), !.pc = "handler"]

Validate(s) ==
  /\ req[s].pc = "validate"
  /\ req' = [req EXCEPT ![s] =
               validate(SchemaOf(req[s].route),
                        [req[s] EXCEPT !.passed = @ \cup {"validate"}])]
  /\ UNCHANGED <<config, db, proc, now, store, arrivals, tier>>

\* app.use('*'): no route of the mounted router matches
NotFound(s) ==
  /\ req[s].pc = "notfound"
  /\ req' = [req EXCEPT ![s] =
               Send(req[s], Response(404, "Endpoint not found", Undef, <<>>,
                                     Undef, NoChain, {"timestamp"}))]
  /\ UNCHANGED <<config, db, proc, now, store, arrivals, tier>>


(***************************************************************************)
(* POST /chain: Scira, then DeepSeek on Scira's output.                    *)
(***************************************************************************)
\* what .length of undefined throws inside the try block
TypeErrorThrown ==
  Outcome("typeerror", 0, Undef, Undef, Undef,
          "Cannot read properties of undefined (reading 'length')")

\* response.data.output || response.data.result
OutputOf(o) == JsOr(o.output, o.result)

\* ChainCatch throwing the error on, out of the handler
ChainCatch_Rethrows(r, error) == [r EXCEPT !.pc = "rejected"]

\* ChainCatch without the return after the vendor's status has been sent
ChainCatch_NoReturn(r, error) ==
  LET failed == Response(500, "Chaining failed. Please check logs.", Undef, <<>>,
                         Undef, NoChain, Metadata)
  IN IF error.kind = "http"
     THEN Send(Send(r, Response(error.status, "API service error", error.data,
                                <<>>, Undef, NoChain, Metadata)), failed)
     ELSE Send(r, failed)

\* the catch block of the chain handler
ChainCatch(r, error) ==
  IF error.kind = "http"
  THEN Send(r, Response(error.status, "API service error", error.data, <<>>,
                        Undef, NoChain, Metadata))
  ELSE Send(r, Response(500, "Chaining failed. Please check logs.", Undef, <<>>,
                        Undef, NoChain, Metadata))

\* the handler up to its first await: the Scira call with the caller's input
ChainStart(r) ==
  [Call(r, "scira", r.body.input) EXCEPT !.pc = "await1",
                                        !.passed = @ \cup {"handler"}]

\* ChainAfterScira sending the caller's input, not Scira's output, to DeepSeek
ChainAfterScira_InputAgain(r, o) ==
  LET r1 == [r EXCEPT !.vendor = Append(@, o)]
      sciraOutput == OutputOf(o)
  IN IF o.kind # "ok" THEN ChainCatch(r1, o)
     ELSE IF LengthThrows(sciraOutput) THEN ChainCatch(r1, TypeErrorThrown)
     ELSE [Call(r1, "deepseek", r.body.input) EXCEPT !.pc = "await2",
                                                    !.sciraOutput = sciraOutput]

\* from the Scira call's return to the second await
ChainAfterScira(r, o) ==
  LET r1 == [r EXCEPT !.vendor = Append(@, o)]
      sciraOutput == OutputOf(o)
  IN IF o.kind # "ok" THEN ChainCatch(r1, o)
     ELSE IF LengthThrows(sciraOutput) THEN ChainCatch(r1, TypeErrorThrown)
     ELSE [Call(r1, "deepseek", sciraOutput) EXCEPT !.pc = "await2",
                                                   !.sciraOutput = sciraOutput]

\* ChainAfterDeepSeek answering with Scira's output as the final output
ChainAfterDeepSeek_SciraOut(r, o) ==
  LET r1 == [r EXCEPT !.vendor = Append(@, o)]
      deepSeekOutput == OutputOf(o)
  IN IF o.kind # "ok" THEN ChainCatch(r1, o)
     ELSE IF LengthThrows(deepSeekOutput) THEN ChainCatch(r1, TypeErrorThrown)
     ELSE Send(r1, Response(200, "", Undef, <<>>, r.sciraOutput,
                            [scira |-> r.sciraOutput, deepseek |-> deepSeekOutput],
                            Metadata))

\* from the DeepSeek call's return to the response
ChainAfterDeepSeek(r, o) ==
  LET r1 == [r EXCEPT !.vendor = Append(@, o)]
      deepSeekOutput == OutputOf(o)
  IN IF o.kind # "ok" THEN ChainCatch(r1, o)
     ELSE IF LengthThrows(deepSeekOutput) THEN ChainCatch(r1, TypeErrorThrown)
     ELSE Send(r1, Response(200, "", Undef, <<>>, deepSeekOutput,
                            [scira |-> r.sciraOutput, deepseek |-> deepSeekOutput],
                            Metadata))

ChainHandler(s) ==
  /\ req[s].pc = "handler"
  /\ req[s].route = "/chain"
  /\ Settle(s, Prologue(mounted, req[s], ChainStart(req[s])))
  /\ UNCHANGED <<config, db, providerFailed, now, store, arrivals, tier>>

ChainSciraReturns(s, o) ==
  /\ req[s].pc = "await1"
  /\ Settle(s, ChainAfterScira(req[s], o))
  /\ providerFailed' = (providerFailed \/ o.kind # "ok")
  /\ UNCHANGED <<config, db, now, store, arrivals, tier>>

ChainDeepSeekReturns(s, o) ==
  /\ req[s].pc = "await2"
  /\ Settle(s, ChainAfterDeepSeek(req[s], o))
  /\ providerFailed' = (providerFailed \/ o.kind # "ok")
  /\ UNCHANGED <<config, db, now, store, arrivals, tier>>

(***************************************************************************)
(* /users/login and /users/register: authLimiter, then the password        *)
(* middleware of index.js on /api, then the router's handler.  For every   *)
(* other path the middleware only calls next().                            *)
(***************************************************************************)
StrengthMin == 6
StrengthMax == 128

\* validatePasswordStrength without the special-character rule
validatePasswordStrength_NoSpecial(password) ==
  LET checks ==
        [length |-> Len(password) >= 6 /\ Len(password) <= 128,
         lowercase |-> Has(password, LowerCase),
         uppercase |-> Has(password, UpperCase),
         number |-> Has(password, Digits)]
      push(ok, message) == IF ok THEN <<>> ELSE <<message>>
  IN [isValid |-> \A k \in DOMAIN checks : checks[k],
      errors |->
        push(checks.length, "Password must be between 6 and 128 characters")
        \o push(checks.lowercase,
                "Password must contain at least one lowercase letter")
        \o push(checks.uppercase,
                "Password must contain at least one uppercase letter")
        \o push(checks.number, "Password must contain at least one number"),
      strength |-> Cardinality({k \in DOMAIN checks : checks[k]})]

\* validatePasswordStrength(password), password a string
validatePasswordStrength(password) ==
  LET checks ==
        [length |-> Len(password) >= StrengthMin /\ Len(password) <= StrengthMax,
         lowercase |-> Has(password, LowerCase),
         uppercase |-> Has(password, UpperCase),
         number |-> Has(password, Digits),
         special |-> Has(password, Special)]
      push(ok, message) == IF ok THEN <<>> ELSE <<message>>
  IN [isValid |-> \A k \in DOMAIN checks : checks[k],
      errors |->
        push(checks.length, "Password must be between 6 and 128 characters")
        \o push(checks.lowercase,
                "Password must contain at least one lowercase letter")
        \o push(checks.uppercase,
                "Password must contain at least one uppercase letter")
        \o push(checks.number, "Password must contain at least one number")
        \o push(checks.special,
                "Password must contain at least one special character (!@#$%^&*(),.?\":{}|<>)"),
      strength |-> Cardinality({k \in DOMAIN checks : checks[k]})]

\* bcrypt.hash(password, saltRounds)
Hash(v) == [t |-> "hash", chars |-> v.chars]
\* bcrypt.compare(password, stored)
Compare(password, stored) == stored.t = "hash" /\ stored.chars = password.chars

\* next() of the /api middleware: on to the router
AfterApi(m, route) == IF route \in RoutesOf(m) THEN "handler" ELSE "notfound"

\* the register branch up to the await of bcrypt.hash
RegisterMiddleware(r) ==
  LET v == validate("userRegister", r)
      passwordStrength == validatePasswordStrength(v.body.password.chars)
      errors == passwordStrength.errors
      w == [v EXCEPT !.passwordStrength = passwordStrength]
  IN IF v.pc = "done" THEN v
     ELSE IF ~passwordStrength.isValid
     THEN Send(w, Response(400, "Password does not meet security requirements",
                           Undef, [i \in 1..Len(errors) |-> Lit(errors[i])],
                           Undef, NoChain, {"timestamp"}))
     ELSE [w EXCEPT !.pc = "hashing"]

\* the login branch
LoginMiddleware(m, r) ==
  LET v == validate("userLogin", r)
  IN IF v.pc = "done" THEN v ELSE [v EXCEPT !.pc = AfterApi(m, r.route)]

\* app.use('/api', ...): the branch is chosen by req.path
ApiMiddleware(s) ==
  LET r == [req[s] EXCEPT !.passed = @ \cup {"api"}]
  IN /\ req[s].pc = "api"
     /\ req' = [req EXCEPT ![s] =
                  IF r.path = "/users/register" THEN RegisterMiddleware(r)
                  ELSE IF r.path = "/users/login" THEN LoginMiddleware(mounted, r)
                  ELSE [r EXCEPT !.pc = AfterApi(mounted, r.route)]]
     /\ UNCHANGED <<config, db, proc, now, store, arrivals, tier>>

\* bcrypt.hash has settled: req.body.password = hashedPassword; next()
PasswordHashed(s, ok) ==
  LET r == req[s]
  IN /\ r.pc = "hashing"
     /\ req' = [req EXCEPT ![s] =
                  IF ok
                  THEN [r EXCEPT !.body.password = Hash(@),
                                 !.passed = @ \cup {"hash"},
                                 !.pc = AfterApi(mounted, r.route)]
                  ELSE Send(r, Response(500, "Failed to process registration",
                                        Undef, <<>>, Undef, NoChain,
                                        {"timestamp"}))]
     /\ UNCHANGED <<config, db, proc, now, store, arrivals, tier>>

\* a handler's catch block
Failed(r, text) ==
  Send(r, Response(500, text, Undef, <<>>, Undef, NoChain, Metadata))

\* User.findOne({$or: [{email}, {username}]})
Existing(body) ==
  {i \in 1..Len(users) :
     users[i].email = body.email \/ users[i].username = body.username}

\* POST /users/register up to the await of user.save()
RegisterFind(s, dbOk) ==
  LET r == [req[s] EXCEPT !.passed = @ \cup {"handler"}]
  IN /\ req[s].pc = "handler"
     /\ req[s].route = "/users/register"
     /\ req' = [req EXCEPT ![s] =
                  IF ~dbOk THEN Failed(r, "Failed to register user")
                  ELSE IF Existing(r.body) # {}
                  THEN Send(r, Response(400,
                                 "User with this email or username already exists",
                                 Undef, <<>>, Undef, NoChain, Metadata))
                  ELSE [r EXCEPT !.pc = "saving"]]
     /\ UNCHANGED <<config, db, proc, now, store, arrivals, tier>>

\* user.save() has settled: the user is created with the body's password
RegisterSave(s, dbOk) ==
  LET r == req[s]
      id == Len(users) + 1
  IN /\ r.pc = "saving"
     /\ r.route = "/users/register"
     /\ users' = IF dbOk
                 THEN Append(users, [username |-> r.body.username,
                                     email |-> r.body.email,
                                     password |-> r.body.password,
                                     lastLogin |-> Never])
                 ELSE users
     /\ req' = [req EXCEPT ![s] =
                  IF dbOk
                  THEN Send(r, UserResponse(201, "User registered successfully",
                                 [id |-> id, username |-> r.body.username,
                                  email |-> r.body.email, lastLogin |-> Never]))
                  ELSE Failed(r, "Failed to register user")]
     /\ UNCHANGED <<config, chats, proc, now, store, arrivals, tier>>

\* User.findOne({email}): the first user with that email
ByEmail(email) == {i \in 1..Len(users) : users[i].email = email}

InvalidLogin ==
  Response(401, "Invalid email or password", Undef, <<>>, Undef, NoChain,
           Metadata)

\* LoginFind answering 404 'User not found' when no user has the email
LoginFind_UserNotFound(s, dbOk) ==
  LET r == [req[s] EXCEPT !.passed = @ \cup {"handler"}]
      found == ByEmail(r.body.email)
  IN /\ req[s].pc = "handler"
     /\ req[s].route = "/users/login"
     /\ req' = [req EXCEPT ![s] =
                  IF ~dbOk THEN Failed(r, "Failed to login")
                  ELSE IF found = {}
                  THEN Send(r, Response(404, "User not found", Undef, <<>>,
                                        Undef, NoChain, Metadata))
                  ELSE [r EXCEPT !.pc = "comparing",
                                 !.user = CHOOSE i \in found :
                                            \A j \in found : i <= j]]
     /\ UNCHANGED <<config, db, proc, now, store, arrivals, tier>>

\* POST /users/login up to the await of bcrypt.compare
LoginFind(s, dbOk) ==
  LET r == [req[s] EXCEPT !.passed = @ \cup {"handler"}]
      found == ByEmail(r.body.email)
  IN /\ req[s].pc = "handler"
     /\ req[s].route = "/users/login"
     /\ req' = [req EXCEPT ![s] =
                  IF ~dbOk THEN Failed(r, "Failed to login")
                  ELSE IF found = {} THEN Send(r, InvalidLogin)
                  ELSE [r EXCEPT !.pc = "comparing",
                                 !.user = CHOOSE i \in found :
                                            \A j \in found : i <= j]]
     /\ UNCHANGED <<config, db, proc, now, store, arrivals, tier>>

\* LoginCompare setting lastLogin whatever bcrypt.compare says
LoginCompare_Always(r, t) == [r EXCEPT !.lastLogin = t, !.pc = "saving"]

\* bcrypt.compare has settled: user.lastLogin = new Date() when it matched
LoginCompare(r, t) ==
  IF r.body.password.t # "str" THEN Failed(r, "Failed to login")
  ELSE IF ~Compare(r.body.password, users[r.user].password)
  THEN Send(r, InvalidLogin)
  ELSE [r EXCEPT !.lastLogin = t, !.pc = "saving"]

LoginCompared(s) ==
  /\ req[s].pc = "comparing"
  /\ req' = [req EXCEPT ![s] = LoginCompare(req[s], now)]
  /\ UNCHANGED <<config, db, proc, now, store, arrivals, tier>>

\* user.save() has settled: lastLogin is stored and the login answered
LoginSave(s, dbOk) ==
  LET r == req[s]
      u == users[r.user]
  IN /\ r.pc = "saving"
     /\ r.route = "/users/login"
     /\ users' = IF dbOk THEN [users EXCEPT ![r.user].lastLogin = r.lastLogin]
                 ELSE users
     /\ req' = [req EXCEPT ![s] =
                  IF dbOk
                  THEN Send(r, UserResponse(200, "Login successful",
                                 [id |-> r.user, username |-> u.username,
                                  email |-> u.email, lastLogin |-> r.lastLogin]))
                  ELSE Failed(r, "Failed to login")]
     /\ UNCHANGED <<config, chats, proc, now, store, arrivals, tier>>

(***************************************************************************)
(* POST /chat/save: the user is looked up, then the user's chat history,   *)
(* which is updated or created, then saved.                                *)
(***************************************************************************)
\* a userId, a list of messages
Id(n) == [t |-> "id", n |-> n]
List(items) == [t |-> "list", items |-> items]

\* const { userId, messages, model = 'gemini' } = req.body
ModelOf(body) == IF body.model.t = "undef" THEN Lit("gemini") ELSE body.model

\* User.findById(userId)
ById(userId) ==
  {i \in 1..Len(users) : userId.t = "id" /\ userId.n = i}

\* ChatHistory.findOne({ userId }): the first history of that user
HistoryOf(userId) == {i \in 1..Len(chats) : chats[i].userId = userId}

ChatFailed(r) == Failed(r, "Failed to save chat history")

\* the handler up to the await of ChatHistory.findOne
ChatFindUser(s, dbOk) ==
  LET r == [req[s] EXCEPT !.passed = @ \cup {"handler"}]
  IN /\ req[s].pc = "handler"
     /\ req[s].route = "/chat/save"
     /\ req' = [req EXCEPT ![s] =
                  IF ~dbOk THEN ChatFailed(r)
                  ELSE IF ById(r.body.userId) = {}
                  THEN Send(r, Response(404, "User not found", Undef, <<>>,
                                        Undef, NoChain, Metadata))
                  ELSE [r EXCEPT !.pc = "history"]]
     /\ UNCHANGED <<config, db, proc, now, store, arrivals, tier>>

\* findOne has settled: the history found is updated in memory, or a new
\* one is built; then the await of chatHistory.save()
ChatFindHistory(s, dbOk) ==
  LET r == req[s]
      found == HistoryOf(r.body.userId)
  IN /\ r.pc = "history"
     /\ req' = [req EXCEPT ![s] =
                  IF ~dbOk THEN ChatFailed(r)
                  ELSE [r EXCEPT !.pc = "saving",
                                 !.history =
                                   IF found = {} THEN 0
                                   ELSE CHOOSE i \in found :
                                          \A j \in found : i <= j]]
     /\ UNCHANGED <<config, db, proc, now, store, arrivals, tier>>

\* ChatStored appending the messages to those of the history found
ChatStored_Appends(history, body) ==
  LET doc == [userId |-> body.userId, messages |-> body.messages,
              model |-> ModelOf(body)]
  IN IF history = 0 THEN Append(chats, doc)
     ELSE [chats EXCEPT ![history] =
             [doc EXCEPT !.messages = List(@.items \o body.messages.items)]]

\* the collection after chatHistory.save(): the history found is replaced
\* in its messages and model, a new history is inserted
ChatStored(history, body) ==
  LET doc == [userId |-> body.userId, messages |-> body.messages,
              model |-> ModelOf(body)]
  IN IF history = 0 THEN Append(chats, doc)
     ELSE [chats EXCEPT ![history] = doc]

\* save has settled
ChatSaved(s, dbOk) ==
  LET r == req[s]
      id == IF r.history = 0 THEN Len(chats) + 1 ELSE r.history
  IN /\ r.pc = "saving"
     /\ r.route = "/chat/save"
     /\ chats' = IF dbOk THEN ChatStored(r.history, r.body) ELSE chats
     /\ req' = [req EXCEPT ![s] =
                  IF dbOk
                  THEN Send(r, [Response(200, "", Undef, <<>>, Undef, NoChain,
                                         Metadata)
                                  EXCEPT !.message = "Chat history saved successfully",
                                         !.chatHistory =
                                           [id |-> id,
                                            messageCount |-> Len(r.body.messages.items),
                                            model |-> ModelOf(r.body)]])
                  ELSE ChatFailed(r)]
     /\ UNCHANGED <<config, users, proc, now, store, arrivals, tier>>

(***************************************************************************)
(* The single-provider endpoints.  /scira exists in the full router only;  *)
(* /deepseek and /gemini differ between the three versions of the router.  *)
(***************************************************************************)
\* the OpenAI and Gemini SDK calls: a completion with its text, or an error
SdkOk(text) == Outcome("ok", 200, text, Undef, Undef, "")
SdkError == Outcome("sdkerror", 0, Undef, Undef, Undef, "upstream error")
SdkOutcomes == {SdkOk(X), SdkOk(EmptyStr), SdkOk(Undef), SdkError}

NoResponse == Lit("No response")

ProviderOf(route) ==
  CASE route = "/scira" -> "scira"
    [] route = "/deepseek" -> "deepseek"
    [] route = "/gemini" -> "gemini"

\* the error text of a handler's catch block
FailedText(m, route) ==
  CASE route = "/scira" -> "Scira API call failed"
    [] route = "/deepseek" /\ m = "part_005" -> "DeepSeek API call via OpenRouter failed"
    [] route = "/deepseek" /\ m # "part_005" -> "DeepSeek API call failed"
    [] route = "/gemini" -> "Gemini API call failed"

\* a handler up to its await: the provider call with req.body.input
ProviderStart(r) ==
  [Call(r, ProviderOf(r.route), r.body.input) EXCEPT !.pc = "await",
                                                    !.passed = @ \cup {"handler"}]

\* AxiosAfter issuing the call a second time when the first has failed
AxiosAfter_Retry(m, r, o) ==
  LET r1 == [r EXCEPT !.vendor = Append(@, o)]
      output == OutputOf(o)
  IN IF o.kind # "ok" /\ Len(r.calls) < 2
     THEN Call(r1, ProviderOf(r.route), r.body.input)
     ELSE IF o.kind # "ok" \/ LengthThrows(output)
     THEN Send(r1, Response(500, FailedText(m, r.route), Undef, <<>>, Undef,
                            NoChain, Metadata))
     ELSE Send(r1, Response(200, "", Undef, <<>>, output, NoChain, Metadata))

\* /scira and /deepseek of the full router: axios, output || result
AxiosAfter(m, r, o) ==
  LET r1 == [r EXCEPT !.vendor = Append(@, o)]
      output == OutputOf(o)
  IN IF o.kind # "ok" \/ LengthThrows(output)
     THEN Send(r1, Response(500, FailedText(m, r.route), Undef, <<>>, Undef,
                            NoChain, Metadata))
     ELSE Send(r1, Response(200, "", Undef, <<>>, output, NoChain, Metadata))

\* /deepseek of the other two versions: the OpenAI SDK,
\* choices[0].message.content || 'No response'
OpenAiAfter(m, r, o) ==
  LET r1 == [r EXCEPT !.vendor = Append(@, o)]
  IN IF o.kind # "ok"
     THEN Send(r1, Response(500, FailedText(m, r.route), Lit(o.message), <<>>,
                            Undef, NoChain, Metadata))
     ELSE Send(r1, Response(200, "", Undef, <<>>, JsOr(o.output, NoResponse),
                            NoChain, Metadata))

\* /gemini: result.response.text(); the full router goes through
\* GeminiService.generateResponse, which rethrows with its own prefix and
\* returns its own metadata
GeminiAfter(m, r, o) ==
  LET r1 == [r EXCEPT !.vendor = Append(@, o)]
  IN IF o.kind # "ok" \/ o.output.t = "undef"
     THEN Send(r1, Response(500, FailedText(m, r.route),
                            IF m = "part_006"
                              THEN Lit("Gemini API error: upstream error")
                              ELSE Lit("upstream error"),
                            <<>>, Undef, NoChain, Metadata))
     ELSE Send(r1, Response(200, "", Undef, <<>>, o.output, NoChain,
                            IF m = "part_006"
                              THEN Metadata \cup {"model", "usage"}
                              ELSE Metadata))

GeminiUnavailable ==
  Response(503, "Gemini service is not available. Please check API key configuration.",
           Undef, <<>>, Undef, NoChain, Metadata)

SciraHandler(s) ==
  /\ req[s].pc = "handler"
  /\ req[s].route = "/scira"
  /\ Settle(s, Prologue(mounted, req[s], ProviderStart(req[s])))
  /\ UNCHANGED <<config, db, providerFailed, now, store, arrivals, tier>>

DeepSeekHandler(s) ==
  /\ req[s].pc = "handler"
  /\ req[s].route = "/deepseek"
  /\ Settle(s, Prologue(mounted, req[s], ProviderStart(req[s])))
  /\ UNCHANGED <<config, db, providerFailed, now, store, arrivals, tier>>

\* GeminiHandler without the check of geminiService
GeminiHandler_NoGuard(s) ==
  /\ req[s].pc = "handler"
  /\ req[s].route = "/gemini"
  /\ Settle(s, Prologue(mounted, req[s], ProviderStart(req[s])))
  /\ UNCHANGED <<config, db, providerFailed, now, store, arrivals, tier>>

GeminiHandler(s) ==
  /\ req[s].pc = "handler"
  /\ req[s].route = "/gemini"
  /\ Settle(s, IF mounted = "part_006" /\ ~geminiService
               THEN Send([req[s] EXCEPT !.passed = @ \cup {"handler"}],
                         GeminiUnavailable)
               ELSE Prologue(mounted, req[s], ProviderStart(req[s])))
  /\ UNCHANGED <<config, db, providerFailed, now, store, arrivals, tier>>

SciraReturns(s, o) ==
  /\ req[s].pc = "await"
  /\ req[s].route = "/scira"
  /\ Settle(s, AxiosAfter(mounted, req[s], o))
  /\ providerFailed' = (providerFailed \/ o.kind # "ok")
  /\ UNCHANGED <<config, db, now, store, arrivals, tier>>

DeepSeekReturns(s, o) ==
  /\ req[s].pc = "await"
  /\ req[s].route = "/deepseek"
  /\ IF mounted = "part_006" THEN o \in AxiosOutcomes ELSE o \in SdkOutcomes
  /\ Settle(s, IF mounted = "part_006" THEN AxiosAfter(mounted, req[s], o)
               ELSE OpenAiAfter(mounted, req[s], o))
  /\ providerFailed' = (providerFailed \/ o.kind # "ok")
  /\ UNCHANGED <<config, db, now, store, arrivals, tier>>

GeminiReturns(s, o) ==
  /\ req[s].pc = "await"
  /\ req[s].route = "/gemini"
  /\ Settle(s, GeminiAfter(mounted, req[s], o))
  /\ providerFailed' = (providerFailed \/ o.kind # "ok")
  /\ UNCHANGED <<config, db, now, store, arrivals, tier>>

(***************************************************************************)
(* The chain pipeline: chain requests of one client against the full       *)
(* router, up to two in flight.                                            *)
(***************************************************************************)
InitChain == InitWith({"production", "development"}, {"part_006"}, {TRUE})

NextChain ==
  \/ \E s \in Slots, b \in Bodies : Arrive(s, "/chain", "ip1", b, ChainArrivals)
  \/ \E s \in Slots : RateLimit(s)
  \/ \E s \in Slots : Validate(s)
  \/ \E s \in Slots : ChainHandler(s)
  \/ \E s \in Slots, o \in AxiosOutcomes : ChainSciraReturns(s, o)
  \/ \E s \in Slots, o \in AxiosOutcomes : ChainDeepSeekReturns(s, o)
  \/ \E s \in Slots : Retire(s)
  \/ Tick(windowMs)

SpecChain == InitChain /\ [][NextChain]_vars


(***************************************************************************)
(* The AI endpoints of every version of the router: one client, one        *)
(* request at a time, every body.                                          *)
(***************************************************************************)
InitAI == InitWith({"production"}, Routers, BOOLEAN)

NextAI ==
  \/ \E r \in {"/chain"} \cup AiRoutes, b \in Bodies : Arrive("r1", r, "ip1", b, AiArrivals)
  \/ RateLimit("r1")
  \/ Validate("r1")
  \/ NotFound("r1")
  \/ ChainHandler("r1")
  \/ \E o \in AxiosOutcomes : ChainSciraReturns("r1", o)
  \/ \E o \in AxiosOutcomes : ChainDeepSeekReturns("r1", o)
  \/ SciraHandler("r1")
  \/ \E o \in AxiosOutcomes : SciraReturns("r1", o)
  \/ DeepSeekHandler("r1")
  \/ \E o \in AxiosOutcomes \cup SdkOutcomes : DeepSeekReturns("r1", o)
  \/ GeminiHandler("r1")
  \/ \E o \in SdkOutcomes : GeminiReturns("r1", o)
  \/ Retire("r1")

SpecAI == InitAI /\ [][NextAI]_vars

(***************************************************************************)
(* The authentication tier: login and register requests of two clients,    *)
(* up to two in flight, the clock moving in halves of a window.            *)
(***************************************************************************)
TickMs == 450 * 1000

InitAuth == InitWith({"production", "development"}, {"part_006"}, {TRUE})

NextAuth ==
  \/ \E s \in Slots, r \in AuthRoutes, k \in Keys :
       Arrive(s, r, k, NoBody, AuthArrivals)
  \/ \E s \in Slots : RateLimit(s)
  \/ \E s \in Slots : ApiMiddleware(s)
  \/ \E s \in Slots : Retire(s)
  \/ Tick(TickMs)

SpecAuth == InitAuth /\ [][NextAuth]_vars

(***************************************************************************)
(* Exceeding a quota: chain and Scira requests of one client, one at a     *)
(* time, more of them than the chain quota.                                *)
(***************************************************************************)
LimitBodies == {NoBody, Posted(Str("a", 1))}
LimitOutcomes == {AxiosOk(X, Undef), AxiosNetwork}

InitLimit == InitWith({"production", "development"}, {"part_006"}, {TRUE})

NextLimit ==
  \/ \E r \in {"/chain", "/scira"}, b \in LimitBodies :
       Arrive("r1", r, "ip1", b, LimitArrivals)
  \/ RateLimit("r1")
  \/ Validate("r1")
  \/ ChainHandler("r1")
  \/ \E o \in LimitOutcomes : ChainSciraReturns("r1", o)
  \/ \E o \in LimitOutcomes : ChainDeepSeekReturns("r1", o)
  \/ SciraHandler("r1")
  \/ \E o \in LimitOutcomes : SciraReturns("r1", o)
  \/ Retire("r1")
  \/ Tick(windowMs)

SpecLimit == InitLimit /\ [][NextLimit]_vars

(***************************************************************************)
(* The chain and single-provider tiers: the requests two clients send      *)
(* within one window, one at a time, enough of them to exhaust the larger  *)
(* quota.  The limiter runs before the body is looked at; the bodies here  *)
(* are the empty one, which validation answers.                            *)
(***************************************************************************)
InitTiers == InitWith({"production", "development"}, {"part_006"}, {TRUE})

NextTiers ==
  \/ \E r \in {"/chain", "/scira", "/deepseek"}, k \in Keys :
       Arrive("r1", r, k, NoBody, TierArrivals)
  \/ RateLimit("r1")
  \/ Validate("r1")
  \/ Retire("r1")

SpecTiers == InitTiers /\ [][NextTiers]_vars

(***************************************************************************)
(* The user endpoints: register and login requests of one client against   *)
(* the full router, up to two in flight.                                   *)
(***************************************************************************)
UserArrivals == 3

alice == Txt(<<"a", "l", "i", "c", "e">>)
bob == Txt(<<"b", "o", "b">>)
\* too short and with a character the pattern refuses
badName == Txt(<<"a", "!">>)
mailA == Txt(<<"a", "@", "x", ".", "i", "o">>)
mailB == Txt(<<"b", "@", "x", ".", "i", "o">>)
badMail == Txt(<<"n", "o">>)
\* 'Abcdef1!'
Strong == Txt(<<"A", "b", "c", "d", "e", "f", "1", "!">>)
\* 'Abcdef1': passes the schema, has no special character
NoSpecial == Txt(<<"A", "b", "c", "d", "e", "f", "1">>)
\* 'abc'
Weak == Txt(<<"a", "b", "c">>)
EmptyTxt == Txt(<<>>)

Register(u, e, p) ==
  [NoBody EXCEPT !.username = u, !.email = e, !.password = p]
Login(e, p) == [NoBody EXCEPT !.email = e, !.password = p]

\* bodies with the three keys set to strings, as a client of the form sends
FormBodies ==
  {Register(alice, mailA, Strong), Register(bob, mailA, Strong),
   Register(alice, mailA, NoSpecial), Register(badName, badMail, Weak)}

RegisterBodies ==
  FormBodies \cup {Register(alice, mailA, EmptyTxt), NoBody,
                   [Register(bob, mailB, Strong) EXCEPT !.extra = Num7]}

LoginBodies ==
  {Login(mailA, Strong), Login(mailA, NoSpecial), Login(mailB, Strong),
   Login(badMail, Strong), Login(mailA, Undef)}

InitUsers == InitWith({"production"}, {"part_006"}, {TRUE})

NextUsers ==
  \/ \E s \in Slots, b \in RegisterBodies :
       Arrive(s, "/users/register", "ip1", b, UserArrivals)
  \/ \E s \in Slots, b \in FormBodies :
       Arrive(s, "/users/register/", "ip1", b, UserArrivals)
  \/ \E s \in Slots, b \in LoginBodies :
       Arrive(s, "/users/login", "ip1", b, UserArrivals)
  \/ \E s \in Slots : RateLimit(s)
  \/ \E s \in Slots : ApiMiddleware(s)
  \/ \E s \in Slots, ok \in BOOLEAN : PasswordHashed(s, ok)
  \/ \E s \in Slots, dbOk \in BOOLEAN : RegisterFind(s, dbOk)
  \/ \E s \in Slots, dbOk \in BOOLEAN : RegisterSave(s, dbOk)
  \/ \E s \in Slots, dbOk \in BOOLEAN : LoginFind(s, dbOk)
  \/ \E s \in Slots : LoginCompared(s)
  \/ \E s \in Slots, dbOk \in BOOLEAN : LoginSave(s, dbOk)
  \/ \E s \in Slots : Retire(s)

SpecUsers == InitUsers /\ [][NextUsers]_vars

(***************************************************************************)
(* validatePasswordStrength on its own: a password is drawn, the function  *)
(* is applied to it.                                                       *)
(***************************************************************************)
MaxWord == 2

\* the words of up to n characters over a letter of each class and "_"
RECURSIVE Words(_)
Words(n) ==
  IF n = 0 THEN {<<>>}
  ELSE Words(n - 1) \cup
       {Append(w, c) : w \in Words(n - 1), c \in {"a", "Z", "1", "!", "_"}}

\* w followed by n characters that are in no class
Pad(w, n) == w \o [i \in 1..n |-> "_"]

\* paddings that bring a word to either side of both length bounds
PadLens == {0, StrengthMin - MaxWord, StrengthMin - MaxWord - 1,
            StrengthMax - MaxWord, StrengthMax - MaxWord + 1}

Passwords ==
  {Pad(w, n) : w \in Words(MaxWord), n \in PadLens}
  \cup {Weak.chars, Strong.chars}

InitStrength ==
  /\ env = "production"
  /\ mounted = "part_006"
  /\ geminiService = TRUE
  /\ users = <<>>
  /\ chats = <<>>
  /\ alive = TRUE
  /\ providerFailed = FALSE
  /\ now = 0
  /\ store = [l \in Limiters |-> [k \in Keys |-> NoEntry]]
  /\ arrivals = 0
  /\ tier = [t \in Tiers |-> [k \in Keys |-> NoWindow]]
  /\ \E p \in Passwords :
       req = [s \in Slots |->
                IF s = "r1"
                THEN [Idle EXCEPT !.pc = "strength", !.posted.password = Txt(p)]
                ELSE Idle]

StrengthChecked(s) ==
  /\ req[s].pc = "strength"
  /\ req' = [req EXCEPT ![s].passwordStrength =
                          validatePasswordStrength(req[s].posted.password.chars),
                        ![s].pc = "checked"]
  /\ UNCHANGED <<config, db, proc, now, store, arrivals, tier>>

NextStrength == StrengthChecked("r1")

SpecStrength == InitStrength /\ [][NextStrength]_vars

(***************************************************************************)
(* Validation on its own: one request at a time on every route that has a  *)
(* validator, with bodies that violate none, one or several constraints    *)
(* and bodies with a key no schema knows.                                  *)
(***************************************************************************)
ValidationArrivals == 1

Extras == {Undef, Num7}

ValidationBodies(path) ==
  IF path = "/users/register"
  THEN {[Register(u, e, p) EXCEPT !.extra = x] :
          u \in {Undef, Num7, EmptyTxt, badName, alice},
          e \in {Undef, badMail, mailA},
          p \in {Undef, EmptyTxt, Weak, NoSpecial, Strong},
          x \in Extras}
  ELSE IF path = "/users/login"
  THEN {[Login(e, p) EXCEPT !.extra = x] :
          e \in {Undef, EmptyTxt, badMail, mailA},
          p \in {Undef, EmptyTxt, Weak},
          x \in Extras}
  ELSE {[b EXCEPT !.extra = x] : b \in Bodies, x \in Extras}

InitValidation == InitWith({"production"}, {"part_006"}, {TRUE})

NextValidation ==
  \/ \E path \in Routes :
       \E b \in ValidationBodies(path) :
         Arrive("r1", path, "ip1", b, ValidationArrivals)
  \/ RateLimit("r1")
  \/ Validate("r1")
  \/ ApiMiddleware("r1")
  \/ Retire("r1")

SpecValidation == InitValidation /\ [][NextValidation]_vars

(***************************************************************************)
(* Chat history: one registered user, save requests for that user and for  *)
(* a userId without a user, up to two in flight.                           *)
(***************************************************************************)
ChatArrivals == 3

M1 == List(<<"hi">>)
M2 == List(<<"hi", "there">>)

ChatBodies ==
  {[NoBody EXCEPT !.userId = u, !.messages = m, !.model = x] :
     u \in {Id(1), Id(2), Undef}, m \in {M1, M2},
     x \in {Undef, Lit("deepseek")}}

InitChat ==
  /\ env = "production"
  /\ mounted = "part_006"
  /\ geminiService = TRUE
  /\ users = <<[username |-> alice, email |-> mailA, password |-> Hash(Strong),
                lastLogin |-> Never]>>
  /\ chats = <<>>
  /\ alive = TRUE
  /\ providerFailed = FALSE
  /\ now = 0
  /\ store = [l \in Limiters |-> [k \in Keys |-> NoEntry]]
  /\ req = [s \in Slots |-> Idle]
  /\ arrivals = 0
  /\ tier = [t \in Tiers |-> [k \in Keys |-> NoWindow]]

NextChat ==
  \/ \E s \in Slots, b \in ChatBodies :
       Arrive(s, "/chat/save", "ip1", b, ChatArrivals)
  \/ \E s \in Slots : ApiMiddleware(s)
  \/ \E s \in Slots, dbOk \in BOOLEAN : ChatFindUser(s, dbOk)
  \/ \E s \in Slots, dbOk \in BOOLEAN : ChatFindHistory(s, dbOk)
  \/ \E s \in Slots, dbOk \in BOOLEAN : ChatSaved(s, dbOk)
  \/ \E s \in Slots : Retire(s)

SpecChat == InitChat /\ [][NextChat]_vars

(***************************************************************************)
(* The whole pipeline of the full router: chain and register requests of   *)
(* one client, one at a time, more of them than the auth quota.            *)
(***************************************************************************)
PipelineArrivals == 6

PipelineBodies(path) ==
  IF path = "/chain" THEN {Posted(Str("a", 1)), Posted(EmptyStr)}
  ELSE {Register(alice, mailA, Strong), Register(alice, mailA, NoSpecial),
        Register(badName, badMail, Weak)}

PipelineOutcomes == {AxiosOk(X, Undef), AxiosHttp(503), AxiosNetwork}

InitPipeline == InitWith({"production"}, {"part_006"}, {TRUE})

NextPipeline ==
  \/ \E path \in {"/chain", "/users/register"} :
       \E b \in PipelineBodies(path) :
         Arrive("r1", path, "ip1", b, PipelineArrivals)
  \/ RateLimit("r1")
  \/ Validate("r1")
  \/ ApiMiddleware("r1")
  \/ \E ok \in BOOLEAN : PasswordHashed("r1", ok)
  \/ \E dbOk \in BOOLEAN : RegisterFind("r1", dbOk)
  \/ \E dbOk \in BOOLEAN : RegisterSave("r1", dbOk)
  \/ ChainHandler("r1")
  \/ \E o \in PipelineOutcomes : ChainSciraReturns("r1", o)
  \/ \E o \in PipelineOutcomes : ChainDeepSeekReturns("r1", o)
  \/ Retire("r1")

SpecPipeline == InitPipeline /\ [][NextPipeline]_vars

(***************************************************************************)
(* Claims about the chain.                                                 *)
(***************************************************************************)
ChainReqs == {s \in Slots : req[s].route = "/chain"}
Answered(s) == req[s].pc = "done" /\ Len(req[s].resps) = 1
CallsTo(s, provider) ==
  {i \in 1..Len(req[s].calls) : req[s].calls[i].provider = provider}

\* a provider's answer holds text a client can use: a non-empty string
UsableText(v) == v.t = "str" /\ v.len > 0
\* the stage failed: an error, or a 2xx answer with no usable output
StageFailed(o) ==
  o.kind # "ok" \/ (~UsableText(o.output) /\ ~UsableText(o.result))
\* the text a 2xx answer holds: its output, or else its result
StageOutput(o) == IF UsableText(o.output) THEN o.output ELSE o.result

\* C1: if the stage-1 (Scira) call fails for any reason, a 2xx answer with no
\* usable output included, the stage-2 (DeepSeek) call is never issued for
\* that request.
C1_FailFast ==
  \A s \in ChainReqs :
    (Len(req[s].vendor) >= 1 /\ StageFailed(req[s].vendor[1]))
      => CallsTo(s, "deepseek") = {}

\* C2: the stage order is fixed: the first call of a chain request goes to
\* Scira with exactly the posted input, a second call goes to DeepSeek, only
\* once the Scira call has returned a 2xx answer, with exactly that answer's
\* output as its prompt; there is no third call.
C2_StageOrder ==
  \A s \in ChainReqs :
    LET c == req[s].calls
    IN /\ Len(c) <= 2
       /\ Len(c) >= 1 => /\ c[1].provider = "scira"
                         /\ c[1].prompt = req[s].posted.input
       /\ Len(c) = 2 => /\ c[2].provider = "deepseek"
                        /\ Len(req[s].vendor) >= 1
                        /\ req[s].vendor[1].kind = "ok"
                        /\ c[2].prompt = StageOutput(req[s].vendor[1])
       /\ Len(req[s].vendor) <= Len(c)

C2_Witness ==
  \E s \in ChainReqs :
    /\ Len(req[s].calls) = 2
    /\ req[s].calls[2].prompt = Y
    /\ req[s].posted.input = Str("b", InputMax)

\* C3: when both stages answer 2xx, stage 1 with output X and stage 2 with
\* output Y, the request is answered once, 200, with output = Y,
\* chain.scira = X and chain.deepseek = Y; a 200 answer always carries the
\* second stage's output.
C3_SuccessEnvelope ==
  \A s \in ChainReqs :
    LET v == req[s].vendor
    IN /\ (req[s].pc = "done" /\ Len(v) = 2 /\ v[1].kind = "ok" /\ v[2].kind = "ok"
            /\ StageOutput(v[2]).t # "undef")
          => /\ Len(req[s].resps) = 1
             /\ req[s].resps[1].status = 200
             /\ req[s].resps[1].output = StageOutput(v[2])
             /\ req[s].resps[1].chain =
                  [scira |-> StageOutput(v[1]), deepseek |-> StageOutput(v[2])]
       /\ (Answered(s) /\ req[s].resps[1].status = 200)
          => /\ Len(v) = 2
             /\ req[s].resps[1].output = StageOutput(v[2])

C3_Witness ==
  \E s \in ChainReqs :
    /\ Answered(s)
    /\ req[s].resps[1].status = 200
    /\ req[s].resps[1].output = Y
    /\ req[s].resps[1].chain = [scira |-> X, deepseek |-> Y]

\* the status and the message of a failed provider call
FailureStatus(o) == IF o.kind = "http" THEN o.status ELSE 500
FailureMessage(o) == IF o.kind = "http" THEN o.data ELSE Lit(o.message)
ProviderErrors == {"http", "network", "timeout"}
LastVendor(s) == req[s].vendor[Len(req[s].vendor)]

\* C4: when a chain stage fails (non-2xx answer, network error, timeout), the
\* response carries that stage's own status and message unchanged.
C4_FailurePropagated ==
  \A s \in ChainReqs :
    (Answered(s) /\ Len(req[s].vendor) >= 1 /\ LastVendor(s).kind \in ProviderErrors)
      => /\ req[s].resps[1].status = FailureStatus(LastVendor(s))
         /\ \/ req[s].resps[1].details = FailureMessage(LastVendor(s))
            \/ Lit(req[s].resps[1].error) = FailureMessage(LastVendor(s))

\* C5: the error of a failed chain request identifies the failing stage: the
\* response to a stage-1 failure differs from the response to a stage-2
\* failure of the same kind.
C5_StageIdentified ==
  \A s1, s2 \in ChainReqs :
    (/\ Answered(s1) /\ Answered(s2)
     /\ Len(req[s1].vendor) = 1 /\ Len(req[s2].vendor) = 2
     /\ LastVendor(s1).kind \in ProviderErrors
     /\ LastVendor(s2) = LastVendor(s1))
      => req[s1].resps[1] # req[s2].resps[1]


(***************************************************************************)
(* Claims about validation.                                                *)
(***************************************************************************)
\* the body of an AI request is valid: input is a string of 1..10000 characters
ValidInput(v) == v.t = "str" /\ v.len >= 1 /\ v.len <= 10000

\* the AI requests in flight on a route the mounted router declares
AiReqs ==
  {s \in Slots : req[s].route \in ({"/chain"} \cup AiRoutes) \cap RoutesOf(mounted)}

\* C6: on every AI endpoint a request whose body fails validation is answered
\* 400 'Validation failed' and no provider call is issued for it.
C6_InvalidNeverCalls ==
  \A s \in AiReqs :
    ~ValidInput(req[s].posted.input)
      => /\ req[s].calls = <<>>
         /\ req[s].pc = "done"
              => /\ Len(req[s].resps) = 1
                 /\ req[s].resps[1].status \in {400, 429}
                 /\ req[s].resps[1].status = 400
                      => req[s].resps[1].error = "Validation failed"

\* C7: the validator accepts every body whose input is a string of 1 to 10000
\* characters and hands it on unchanged; it rejects an input of 0 or of more
\* than 10000 characters with 400 and field errors that all name 'input'.
C7_ValidatorBounds ==
  \A s \in Slots :
    "validate" \in req[s].passed
      => LET v == req[s].posted.input
         IN /\ ValidInput(v)
                 => /\ req[s].pc = "handler" \/ "handler" \in req[s].passed
                    /\ req[s].body = req[s].posted
            /\ (v.t = "str" /\ (v.len = 0 \/ v.len > 10000))
                 => /\ req[s].pc = "done"
                    /\ "handler" \notin req[s].passed
                    /\ Len(req[s].resps) = 1
                    /\ req[s].resps[1].status = 400
                    /\ req[s].resps[1].fieldErrors # <<>>
                    /\ \A i \in 1..Len(req[s].resps[1].fieldErrors) :
                         req[s].resps[1].fieldErrors[i].field = "input"

\* a 10001-character input was rejected by a schema the module declares
C7_Witness ==
  \E s \in Slots :
    /\ "validate" \in req[s].passed
    /\ SchemaOf(req[s].route) \in schemas
    /\ req[s].posted.input = Str("c", 10001)
    /\ req[s].pc = "done"
    /\ req[s].resps[1].fieldErrors =
         <<FieldError("input", "Input cannot exceed 10,000 characters")>>

(***************************************************************************)
(* Claims about rate limiting.                                             *)
(***************************************************************************)
Min(a, b) == IF a <= b THEN a ELSE b

\* the request was answered by the limiter in front of its route
Rejected(s) ==
  \E i \in 1..Len(req[s].resps) :
    /\ req[s].resps[i].status = 429
    /\ req[s].resps[i].error = LimitMessage(LimiterOf(env, req[s].route))

\* the hits the limiter in front of the request counts for its client
HitsFor(s) == store[LimiterOf(env, req[s].route)][req[s].ip].hits

\* C8: a request the rate limiter rejects is answered 429 in the limiter's
\* own step and goes no further: no validator, no handler, no provider call,
\* no second response; and only requests over the quota are rejected.
C8_RejectionTerminal ==
  \A s \in Slots :
    /\ Rejected(s)
         => /\ req[s].pc = "done"
            /\ Len(req[s].resps) = 1
            /\ req[s].passed = {}
            /\ req[s].calls = <<>>
            /\ req[s].vendor = <<>>
            /\ HitsFor(s) > Max(LimiterOf(env, req[s].route))
    /\ req[s].pc = "limit" => req[s].resps = <<>>
    /\ (req[s].pc = "validate" \/ req[s].passed # {})
         => HitsFor(s) <= Max(LimiterOf(env, req[s].route))

C8_Witness ==
  \E s \in Slots :
    /\ Rejected(s)
    /\ req[s].route = "/chain"
    /\ req[s].posted.input = Str("a", 1)
    /\ store["chain"][req[s].ip].hits = 11

\* C9: login and register requests of one client share one window of 5: of
\* the requests seen in a window the first 5 are admitted and every later one
\* is rejected, whatever the interleaving; the first request after the window
\* has elapsed opens a new window and is admitted.
C9_AuthWindow ==
  \A k \in Keys :
    LET w == tier["auth"][k]
    IN /\ w.admitted <= 5
       /\ w.admitted = Min(w.seen, 5)
       /\ w.open => store["auth"][k] = [hits |-> w.seen, resetTime |-> w.start + windowMs]

\* a client whose 6th request was rejected is admitted again after the window
C9_Witness ==
  \E k \in Keys, s \in Slots :
    /\ tier["auth"][k].start = windowMs
    /\ tier["auth"][k].seen = 1
    /\ tier["auth"][k].admitted = 1
    /\ Rejected(s)
    /\ req[s].ip = k

\* one tier's counter for a client counts that tier's requests only
TierCounts(t, k) == store[getRateLimiters(env, t)][k].hits = tier[t][k].seen

RegisterReqs == {s \in Slots : req[s].route = "/users/register"}
LoginReqs == {s \in Slots : req[s].route = "/users/login"}

\* the register handler is running or has run for the request
Dispatched(s) == req[s].pc \in {"handler", "saving"} \/ "handler" \in req[s].passed

\* C11: every stored password is a bcrypt hash, and every request the router
\* dispatches to the register handler has been through the hashing middleware,
\* which has replaced req.body.password by the hash of the posted password.
C11_StoredHashed ==
  /\ \A i \in 1..Len(users) : users[i].password.t = "hash"
  /\ \A s \in RegisterReqs :
       Dispatched(s) => /\ "hash" \in req[s].passed
                        /\ req[s].posted.password.t = "str"
                        /\ req[s].body.password = Hash(req[s].posted.password)

\* a user is stored with the password as it was posted
C11_Witness ==
  \E i \in 1..Len(users) : users[i].password = Strong

\* the body violates a registration rule: a constraint of the schema, or a
\* rule of the password-strength check
ViolatesRule(body) ==
  \/ SchemaErrors("userRegister", body) # <<>>
  \/ /\ body.password.t = "str"
     /\ ~validatePasswordStrength(body.password.chars).isValid

\* details is a non-empty array of {field, message} entries
FieldDetails(resp) ==
  /\ resp.fieldErrors # <<>>
  /\ \A i \in 1..Len(resp.fieldErrors) :
       DOMAIN resp.fieldErrors[i] = {"field", "message"}

\* C12: a register request whose body violates a registration rule never
\* reaches the register handler, creates no user, and when the limiter lets
\* it through it is answered 400 {error: 'Validation failed', details:
\* [{field, message}, ...]}.
C12_RegisterRejected ==
  \A s \in RegisterReqs :
    ViolatesRule(req[s].posted)
      => /\ ~Dispatched(s)
         /\ Answered(s)
              => \/ req[s].resps[1].status = 429
                 \/ /\ req[s].resps[1].status = 400
                    /\ req[s].resps[1].error = "Validation failed"
                    /\ FieldDetails(req[s].resps[1])

\* a password without a special character is answered with another error
\* and a list of plain messages
C12_Witness ==
  \E s \in RegisterReqs :
    /\ req[s].posted = Register(alice, mailA, NoSpecial)
    /\ req[s].path = "/users/register"
    /\ Answered(s)
    /\ req[s].resps[1].error = "Password does not meet security requirements"

\* the rules in their fixed order, and which of them a password satisfies
StrengthRules == <<"length", "lowercase", "uppercase", "number", "special">>
Satisfies(p, rule) ==
  CASE rule = "length" -> Len(p) >= 6 /\ Len(p) <= 128
    [] rule = "lowercase" -> \E i \in 1..Len(p) : p[i] \in LowerCase
    [] rule = "uppercase" -> \E i \in 1..Len(p) : p[i] \in UpperCase
    [] rule = "number" -> \E i \in 1..Len(p) : p[i] \in Digits
    [] rule = "special" -> \E i \in 1..Len(p) : p[i] \in Special
StrengthMessage(rule) ==
  CASE rule = "length" -> "Password must be between 6 and 128 characters"
    [] rule = "lowercase" -> "Password must contain at least one lowercase letter"
    [] rule = "uppercase" -> "Password must contain at least one uppercase letter"
    [] rule = "number" -> "Password must contain at least one number"
    [] rule = "special" ->
         "Password must contain at least one special character (!@#$%^&*(),.?\":{}|<>)"

\* the messages of the violated rules among the first n, in order
RECURSIVE Violated(_, _)
Violated(p, n) ==
  IF n = 0 THEN <<>>
  ELSE Violated(p, n - 1) \o
       (IF Satisfies(p, StrengthRules[n]) THEN <<>>
        ELSE <<StrengthMessage(StrengthRules[n])>>)

\* C13: validatePasswordStrength returns strength = the number of satisfied
\* rules among length 6..128, lowercase, uppercase, digit and special
\* character, isValid exactly when all five are satisfied, and errors = one
\* message per violated rule in the order length, lowercase, uppercase,
\* number, special; 'abc' is invalid with the length, uppercase, number and
\* special messages, 'Abcdef1!' is valid with strength 5.
C13_Strength ==
  \A s \in Slots :
    req[s].pc = "checked"
      => LET p == req[s].posted.password.chars
             result == req[s].passwordStrength
             n == Cardinality({k \in 1..5 : Satisfies(p, StrengthRules[k])})
         IN /\ result.strength = n
            /\ result.isValid <=> (n = 5)
            /\ result.errors = Violated(p, 5)
            /\ p = Weak.chars
                 => /\ ~result.isValid
                    /\ result.errors =
                         <<StrengthMessage("length"), StrengthMessage("uppercase"),
                           StrengthMessage("number"), StrengthMessage("special")>>
            /\ p = Strong.chars => (result.isValid /\ result.strength = 5)

\* a 128-character password with every class in it has been checked
C13_Witness ==
  \E s \in Slots :
    /\ req[s].pc = "checked"
    /\ Len(req[s].posted.password.chars) = StrengthMax
    /\ req[s].passwordStrength.strength = 3
    /\ Len(req[s].passwordStrength.errors) = 2

\* the login's email is unknown, or its password is not the password of the
\* user findOne returns for that email
BadCredentials(body) ==
  \/ ByEmail(body.email) = {}
  \/ \E i \in ByEmail(body.email) :
       /\ \A j \in ByEmail(body.email) : i <= j
       /\ ~Compare(body.password, users[i].password)

\* the login handler has answered the request, and not from its catch block
LoginAnswered(s) ==
  /\ s \in LoginReqs
  /\ "handler" \in req[s].passed
  /\ Answered(s)
  /\ req[s].resps[1].status # 500

\* a step changes a user's lastLogin only by saving a login whose password
\* comparison succeeded, and changes nothing else of a stored user
OnlyGoodLogins ==
  \A i \in 1..Len(users) :
    users'[i] # users[i]
      => \E s \in LoginReqs :
           /\ req[s].pc = "saving"
           /\ req[s].user = i
           /\ Compare(req[s].body.password, users[i].password)
           /\ users'[i] = [users[i] EXCEPT !.lastLogin = req[s].lastLogin]
           /\ req[s].lastLogin # Never

\* C14: a login with an unknown email or a wrong password that reaches the
\* handler is answered 401 and has set no lastLogin; a stored user changes
\* only in lastLogin, and only by a login whose password comparison succeeded.
C14_LoginFailure ==
  /\ [](\A s \in Slots :
          (LoginAnswered(s) /\ BadCredentials(req[s].body))
            => /\ req[s].resps[1].status = 401
               /\ req[s].lastLogin = Never)
  /\ [][OnlyGoodLogins]_vars

\* a user has logged in, and a login with a wrong password for that user has
\* been answered 401
C14_Witness ==
  \E s \in Slots, i \in 1..Len(users) :
    /\ LoginAnswered(s)
    /\ req[s].body = Login(mailA, NoSpecial)
    /\ users[i].email = mailA
    /\ users[i].lastLogin # Never
    /\ req[s].resps[1].status = 401

(***************************************************************************)
(* Claims about the provider calls of every endpoint.                      *)
(***************************************************************************)
\* the last provider call of the request came back 2xx without usable text
EmptyAnswer(s) ==
  /\ Len(req[s].vendor) >= 1
  /\ LastVendor(s).kind = "ok"
  /\ ~UsableText(LastVendor(s).output)
  /\ ~UsableText(LastVendor(s).result)

\* C15: when a provider call succeeds (2xx) with no usable text, the request
\* is answered with an error; it is never answered 200, neither with a
\* placeholder string nor with an empty output.
C15_EmptyIsError ==
  \A s \in Slots :
    (Answered(s) /\ EmptyAnswer(s)) => req[s].resps[1].status # 200

\* an empty completion has been answered 200 with the placeholder
C15_Witness ==
  \E s \in Slots :
    /\ Answered(s)
    /\ EmptyAnswer(s)
    /\ req[s].resps[1].status = 200
    /\ req[s].resps[1].output = NoResponse

\* C16: every response the server sends carries a metadata object with both
\* processingTime and timestamp.
C16_MetadataAlways ==
  \A s \in Slots :
    \A i \in 1..Len(req[s].resps) :
      {"processingTime", "timestamp"} \subseteq req[s].resps[i].metadata

\* a validation rejection has been sent without metadata
C16_Witness ==
  \E s \in Slots :
    /\ Answered(s)
    /\ req[s].resps[1].status = 400
    /\ req[s].resps[1].error = "Validation failed"
    /\ req[s].resps[1].metadata = {}

\* a provider call of the request has failed
CallFailed(s) ==
  \E i \in 1..Len(req[s].vendor) : req[s].vendor[i].kind # "ok"

\* C17: a provider-call failure aborts only its own request: that request is
\* answered, once, with an error response, and the process keeps running, so
\* no request is ever cut off by the process exiting.
C17_FailureContained ==
  /\ alive
  /\ \A s \in Slots :
       /\ req[s].pc # "exited"
       /\ CallFailed(s) => /\ Answered(s)
                           /\ req[s].resps[1].status >= 400

\* after a provider call has failed, a later request is served: its own
\* provider call succeeded and it is answered 200
C17_Witness ==
  \E s \in Slots :
    /\ providerFailed
    /\ alive
    /\ ~CallFailed(s)
    /\ Len(req[s].vendor) >= 1
    /\ Answered(s)
    /\ req[s].resps[1].status = 200

\* C18: within one request each provider is called at most once, every call
\* but the last has succeeded, and no call is issued after a failed one.
C18_AttemptOnce ==
  \A s \in Slots :
    /\ \A provider \in {"scira", "deepseek", "gemini"} :
         Cardinality(CallsTo(s, provider)) <= 1
    /\ \A i \in 1..Len(req[s].vendor) :
         req[s].vendor[i].kind # "ok" => Len(req[s].calls) = i

\* a request whose only provider call failed has been answered
C18_Witness ==
  \E s \in Slots :
    /\ Answered(s)
    /\ Len(req[s].calls) = 1
    /\ Len(req[s].vendor) = 1
    /\ req[s].vendor[1].kind \in {"network", "sdkerror"}

(***************************************************************************)
(* Claims about validation as a function of the body.                      *)
(***************************************************************************)
\* the request has been through the validator of its route
Validated(s) ==
  \/ "validate" \in req[s].passed
  \/ "api" \in req[s].passed /\ req[s].path \in AuthRoutes

\* the constraints a schema declares on a key, in the order it declares them,
\* each with its message
Constraint(kind, limit, message) ==
  [kind |-> kind, limit |-> limit, message |-> message]
Declared(name, f) ==
  CASE name = "userRegister" /\ f = "username" ->
         <<Constraint("required", 0, "Username is required"),
           Constraint("nonempty", 0, "Username cannot be empty"),
           Constraint("min", 3, "Username must be at least 3 characters long"),
           Constraint("max", 30, "Username cannot exceed 30 characters"),
           Constraint("word", 0,
             "Username can only contain letters, numbers, and underscores")>>
    [] name = "userRegister" /\ f = "password" ->
         <<Constraint("required", 0, "Password is required"),
           Constraint("nonempty", 0, "Password cannot be empty"),
           Constraint("min", 6, "Password must be at least 6 characters long"),
           Constraint("max", 128, "Password cannot exceed 128 characters"),
           Constraint("classes", 0,
             "Password must contain at least one lowercase letter, one uppercase letter, and one number")>>
    [] name = "userLogin" /\ f = "password" ->
         <<Constraint("required", 0, "Password is required"),
           Constraint("nonempty", 0, "Password cannot be empty")>>
    [] f = "email" ->
         <<Constraint("required", 0, "Email is required"),
           Constraint("nonempty", 0, "Email cannot be empty"),
           Constraint("email", 0, "Please enter a valid email address")>>

\* the fields of the user schemas in declaration order
DeclaredFields(name) ==
  IF name = "userRegister" THEN <<"username", "email", "password">>
  ELSE <<"email", "password">>

\* the value violates the constraint: a missing value violates required
\* only, each other constraint is one on strings
Violates(v, c) ==
  IF c.kind = "required" THEN v.t = "undef"
  ELSE /\ v.t = "str"
       /\ CASE c.kind = "nonempty" -> Len(v.chars) = 0
            [] c.kind = "min" -> Len(v.chars) < c.limit
            [] c.kind = "max" -> Len(v.chars) > c.limit
            [] c.kind = "word" ->
                 \E i \in 1..Len(v.chars) :
                   v.chars[i] \notin LowerCase \cup UpperCase \cup Digits \cup {"_"}
            [] c.kind = "classes" ->
                 \/ \A i \in 1..Len(v.chars) : v.chars[i] \notin LowerCase
                 \/ \A i \in 1..Len(v.chars) : v.chars[i] \notin UpperCase
                 \/ \A i \in 1..Len(v.chars) : v.chars[i] \notin Digits
            [] c.kind = "email" -> Len(v.chars) > 0 /\ ~IsEmail(v.chars)

\* the entries of the violated constraints among the first n of a field
RECURSIVE ViolatedOf(_, _, _, _)
ViolatedOf(name, f, v, n) ==
  IF n = 0 THEN <<>>
  ELSE ViolatedOf(name, f, v, n - 1) \o
       (IF Violates(v, Declared(name, f)[n])
        THEN <<FieldError(f, Declared(name, f)[n].message)>>
        ELSE <<>>)

\* ... of the first n fields of a schema
RECURSIVE AllViolated(_, _, _)
AllViolated(name, body, n) ==
  IF n = 0 THEN <<>>
  ELSE LET f == DeclaredFields(name)[n]
       IN AllViolated(name, body, n - 1)
          \o ViolatedOf(name, f, body[f], Len(Declared(name, f)))

\* the user requests whose fields are all strings or missing
StringBodied(s) ==
  /\ req[s].path \in AuthRoutes
  /\ \A f \in {"username", "email", "password"} :
       req[s].posted[f].t \in {"undef", "str"}

\* C19: on a payload that violates several constraints validation reports
\* every violated constraint, not only the first, as {field, message}
\* entries in the order the schema declares its fields and their constraints.
C19_AllViolations ==
  \A s \in Slots :
    (Validated(s) /\ StringBodied(s))
      => LET name == SchemaOf(req[s].route)
             all == AllViolated(name, req[s].posted, Len(DeclaredFields(name)))
         IN all # <<>> => /\ Answered(s)
                          /\ req[s].resps[1].status = 400
                          /\ req[s].resps[1].fieldErrors = all

\* two violated constraints of one field and one of another are reported,
\* in declaration order
C19_Witness ==
  \E s \in Slots :
    /\ Validated(s)
    /\ Answered(s)
    /\ req[s].posted.username = badName
    /\ req[s].resps[1].fieldErrors =
         <<FieldError("username", "Username must be at least 3 characters long"),
           FieldError("username",
             "Username can only contain letters, numbers, and underscores"),
           FieldError("email", "Please enter a valid email address")>>

\* the validator has accepted the body of the request
Accepted(s) ==
  /\ Validated(s)
  /\ ~(/\ Answered(s)
       /\ req[s].resps[1].status \in {400, 500}
       /\ req[s].resps[1].error \in
            {"Validation failed", "Validation configuration error"})

\* C20: when validation succeeds req.body is the posted payload with the
\* keys the schema knows unchanged and every other key stripped, and
\* validating that body again succeeds and yields the same body.
C20_Normalized ==
  \A s \in Slots :
    Accepted(s)
      => LET name == SchemaOf(req[s].route)
             again == validate(name, req[s])
         IN /\ \A f \in DOMAIN req[s].body :
                 req[s].body[f] =
                   IF f \in SchemaKeys(name) THEN req[s].posted[f] ELSE Undef
            /\ SchemaErrors(name, req[s].body) = <<>>
            /\ again.body = req[s].body
            /\ Len(again.resps) = Len(req[s].resps)

\* a register body with an unknown key has been accepted and stripped
C20_Witness ==
  \E s \in Slots :
    /\ Accepted(s)
    /\ req[s].route = "/users/register"
    /\ req[s].posted.extra = Num7
    /\ req[s].body = Register(alice, mailA, Strong)

(***************************************************************************)
(* Claims about the chat history.                                          *)
(***************************************************************************)
ChatReqs == {s \in Slots : req[s].route = "/chat/save"}

\* the request has no user record
Stranger(s) == ById(req[s].body.userId) = {}

\* the step answers the request of slot s
Answers(s) == req[s].pc # "done" /\ req'[s].pc = "done"

\* what a save of the body stores
Supplied(body) ==
  [userId |-> body.userId, messages |-> body.messages, model |-> ModelOf(body)]

ChatStep ==
  \A s \in ChatReqs :
    /\ (Stranger(s) /\ req'[s] # req[s]) => chats' = chats
    /\ (Stranger(s) /\ Answers(s) /\ req'[s].resps[1].status # 500)
         => req'[s].resps[1].status = 404
    /\ (Answers(s) /\ req'[s].resps[1].status = 200)
         => LET saved == req'[s].resps[1].chatHistory
            IN /\ ~Stranger(s)
               /\ saved.id \in 1..Len(chats')
               /\ chats'[saved.id] = Supplied(req[s].body)
               /\ saved.messageCount = Len(req[s].body.messages.items)
               /\ saved.model = ModelOf(req[s].body)
               /\ \A i \in 1..Len(chats) : i # saved.id => chats'[i] = chats[i]

\* C21: a save for a userId without a user record changes no chat history
\* and, unless a database operation throws, is answered 404; a save answered
\* 200 is for an existing user and leaves that user's history holding exactly
\* the supplied messages and model, every other history unchanged.
C21_ChatSave == [][ChatStep]_vars

\* a save of two messages and then a save of one message for the same user
\* have both been answered 200, the second one having found the history of
\* the first, which now holds the one message; a save for a userId without a
\* user would be the 404 case
C21_Witness ==
  /\ Len(chats) = 1
  /\ chats[1].messages = M1
  /\ req["r1"].body.messages = M2
  /\ req["r1"].pc = "done" /\ req["r1"].resps[1].status = 200
  /\ req["r2"].body.messages = M1
  /\ req["r2"].history = 1
  /\ req["r2"].pc = "done" /\ req["r2"].resps[1].status = 200

(***************************************************************************)
(* Claims about the prompts, the order of the pipeline, and its answers.   *)
(***************************************************************************)
\* C22: every prompt handed to a provider call is a string of 1 to 10000
\* characters, the stage-2 prompt of a chain included.
C22_PromptsValid ==
  \A s \in Slots :
    \A i \in 1..Len(req[s].calls) : ValidInput(req[s].calls[i].prompt)

\* a chain whose validated input went to Scira has handed the empty string
\* to DeepSeek as its prompt
C22_Witness ==
  \E s \in ChainReqs :
    /\ "validate" \in req[s].passed
    /\ Len(req[s].calls) = 2
    /\ ValidInput(req[s].calls[1].prompt)
    /\ req[s].calls[2] = [provider |-> "deepseek", prompt |-> EmptyStr]

\* the request has reached its route's handler
Handled(s) == req[s].pc = "handler" \/ "handler" \in req[s].passed

\* C23: on every AI route a request reaches the validator only after the
\* limiter has counted it and reaches the handler only after the validator
\* has passed it, so a request rejected by validation has consumed a unit of
\* its client's quota.
C23_LimitValidateHandle ==
  \A s \in AiReqs :
    /\ (req[s].pc = "validate" \/ "validate" \in req[s].passed)
         => HitsFor(s) >= 1
    /\ Handled(s) => ("validate" \in req[s].passed /\ HitsFor(s) >= 1)

\* the router of src/server/routes/api.js has handed a request to the
\* DeepSeek handler that no limiter has counted and no validator has seen
C23_Witness ==
  \E s \in AiReqs :
    /\ mounted = "api_js"
    /\ req[s].route = "/deepseek"
    /\ Handled(s)
    /\ req[s].passed = {"handler"}
    /\ HitsFor(s) = 0

\* a step of the pipeline is ready to take the request of slot s on
Proceeds(s) ==
  ENABLED (\/ RateLimit(s)
           \/ Validate(s)
           \/ ApiMiddleware(s)
           \/ \E ok \in BOOLEAN : PasswordHashed(s, ok)
           \/ \E dbOk \in BOOLEAN : RegisterFind(s, dbOk)
           \/ \E dbOk \in BOOLEAN : RegisterSave(s, dbOk)
           \/ ChainHandler(s)
           \/ \E o \in PipelineOutcomes : ChainSciraReturns(s, o)
           \/ \E o \in PipelineOutcomes : ChainDeepSeekReturns(s, o))

\* C24: a request in the pipeline has been sent no response and is taken on
\* by a middleware, a handler or the return of a call it awaits, or it has
\* been sent exactly one response and is finished; the process is alive.
C24_OneResponse ==
  /\ alive
  /\ \A s \in Slots :
       /\ Len(req[s].resps) <= 1
       /\ req[s].pc = "done" <=> Len(req[s].resps) = 1
       /\ req[s].pc \notin {"idle", "done"} => Proceeds(s)

\* after a registration that stored a user, a registration over the quota
\* has been rejected by the limiter and has its one response
C24_Witness ==
  /\ Len(users) >= 1
  /\ Answered("r1")
  /\ Rejected("r1")
  /\ req["r1"].route = "/users/register"
  /\ store["auth"]["ip1"].hits = 6

(***************************************************************************)
(* Claims about concurrent requests and about what a login reveals.        *)
(***************************************************************************)
\* C25: no two stored users share an email or a username, whatever the
\* interleaving of the registrations.
C25_UniqueUsers ==
  \A i, j \in 1..Len(users) :
    i # j => /\ users[i].email # users[j].email
             /\ users[i].username # users[j].username

\* two registrations with the same username and email, both validated and
\* hashed, have both been answered 201 and both users are stored
C25_Witness ==
  /\ Len(users) = 2
  /\ users[1].email = users[2].email
  /\ users[1].username = users[2].username
  /\ \A s \in Slots :
       /\ Answered(s)
       /\ req[s].path = "/users/register"
       /\ req[s].posted = Register(alice, mailA, Strong)
       /\ req[s].resps[1].status = 201

\* C26: each user has at most one chat-history record, whatever the
\* interleaving of the saves.
C26_OneHistory ==
  \A i, j \in 1..Len(chats) : i # j => chats[i].userId # chats[j].userId

\* two first saves for the same user have both been answered 200, neither
\* having found a history, and the user has two records
C26_Witness ==
  /\ Len(chats) = 2
  /\ chats[1].userId = chats[2].userId
  /\ \A s \in Slots :
       /\ Answered(s)
       /\ req[s].route = "/chat/save"
       /\ req[s].history = 0
       /\ req[s].resps[1].status = 200

\* the login handler found no user with the request's email
UnknownEmail(s) == LoginAnswered(s) /\ req[s].user = 0

\* the login handler found a user whose password the request's does not match
WrongPassword(s) ==
  /\ LoginAnswered(s)
  /\ req[s].user # 0
  /\ ~Compare(req[s].body.password, users[req[s].user].password)

\* C27: a login with an unknown email and a login with a known email and a
\* wrong password get the same answer: 401 'Invalid email or password', and
\* nothing else in the response that tells them apart.
C27_SameFailure ==
  \A s1, s2 \in Slots :
    (UnknownEmail(s1) /\ WrongPassword(s2))
      => /\ req[s1].resps[1].status = 401
         /\ req[s2].resps[1].status = 401
         /\ req[s1].resps[1].error = "Invalid email or password"
         /\ req[s2].resps[1].error = "Invalid email or password"
         /\ req[s1].resps[1] = req[s2].resps[1]

\* with alice registered, a login with an email nobody has and a login with
\* alice's email and a wrong password have both been answered
C27_Witness ==
  /\ UnknownEmail("r1")
  /\ req["r1"].body = Login(mailB, Strong)
  /\ WrongPassword("r2")
  /\ req["r2"].body = Login(mailA, NoSpecial)
  /\ users[req["r2"].user].email = mailA

(***************************************************************************)
(* Claims about the Gemini service.                                        *)
(***************************************************************************)
\* the Gemini handler of the full router has run for the request
GeminiHandled(s) ==
  /\ mounted = "part_006"
  /\ req[s].route = "/gemini"
  /\ "handler" \in req[s].passed

\* C28: when the Gemini service failed to initialize, every request the
\* Gemini handler takes is answered 503 with no provider call; otherwise the
\* handler calls the service exactly once; and the service never changes
\* after startup.
C28_GeminiService ==
  /\ [](\A s \in Slots :
          GeminiHandled(s)
            => IF geminiService
               THEN /\ Len(req[s].calls) = 1
                    /\ req[s].calls[1] =
                         [provider |-> "gemini", prompt |-> req[s].body.input]
               ELSE /\ Answered(s)
                    /\ req[s].resps[1] = GeminiUnavailable
                    /\ req[s].calls = <<>>)
  /\ [][geminiService' = geminiService]_vars

\* without the service the second valid Gemini request of the process has
\* been answered 503, no call made
C28_Witness ==
  \E s \in Slots :
    /\ ~geminiService
    /\ GeminiHandled(s)
    /\ arrivals = 2
    /\ store["ai"][req[s].ip].hits = 2
    /\ ValidInput(req[s].posted.input)
    /\ req[s].resps[1].status = 503
    /\ req[s].calls = <<>>

====
